---- MODULE Spec2Model ----
(***************************************************************************)
(* State-machine model of book/sqmc/sqmc_as_dim_grows.py: the model setup  *)
(* loop that fills the registry `models`, the call of particles.multiSMC,  *)
(* the aggregation loop that fills `results_mse`, and the construction of  *)
(* the DataFrame `df` with its combined label `fk_qmc`.                    *)
(*                                                                         *)
(* Numbers are exact rationals (reduced fractions) extended with NaN; the  *)
(* values of np.log10 are kept symbolically as log10 of a positive         *)
(* rational, or -inf, +inf, NaN.  IEEE rounding is not modelled.           *)
(***************************************************************************)
EXTENDS Integers, Sequences, FiniteSets, TLC

VARIABLES pc, di, next_obj, models, results, pos,
          base_mean, base_mse, base_at, mse, results_mse, df

vars == <<pc, di, next_obj, models, results, pos,
          base_mean, base_mse, base_at, mse, results_mse, df>>

(***************************************************************************)
(* Bounds of the model (the script has 4 dimensions, T = 50, nruns = 100   *)
(* and real-valued estimates).                                             *)
(***************************************************************************)
NDims == 2
T == 2
NRuns == 2
MaxVal == 2

\* dims = range(5, 21, 5), cut to its first NDims elements
dims == [i \in 1..NDims |-> 5 * i]

type_fks_bootFirst == <<"boot", "guided">>

\* for type_fk in ['guided', 'boot']
type_fks == <<"guided", "boot">>

\* for qmc in [False, True]
qmcs == <<FALSE, TRUE>>

\* hue_order of the violin plot
hue_order == <<"boot SMC", "boot SQMC", "guided SQMC">>

(***************************************************************************)
(* Exact arithmetic on floats: [k |-> "num", n, d] is n/d in lowest terms, *)
(* d > 0; NaN is the float nan; Unbound is a name not yet assigned.        *)
(***************************************************************************)
RECURSIVE GCD(_, _)
GCD(a, b) == IF b = 0 THEN a ELSE GCD(b, a % b)

Abs(x) == IF x < 0 THEN -x ELSE x

NaN == [k |-> "nan", n |-> 0, d |-> 1]

Unbound == [k |-> "unbound", n |-> 0, d |-> 1]

Rat(n, d) ==
    LET g == GCD(Abs(n), d)
    IN  [k |-> "num", n |-> n \div g, d |-> d \div g]

IsNum(x) == x.k = "num"

FSub(x, y) ==
    IF IsNum(x) /\ IsNum(y) THEN Rat(x.n * y.d - y.n * x.d, x.d * y.d) ELSE NaN

FAdd(x, y) ==
    IF IsNum(x) /\ IsNum(y) THEN Rat(x.n * y.d + y.n * x.d, x.d * y.d) ELSE NaN

FMul(x, y) ==
    IF IsNum(x) /\ IsNum(y) THEN Rat(x.n * y.n, x.d * y.d) ELSE NaN

\* x / n for a count n >= 0; 0.0 / 0 is nan (the only division by zero the
\* script performs: the sum of an empty array over its length)
FDivInt(x, n) ==
    IF IsNum(x) /\ n > 0 THEN Rat(x.n, x.d * n) ELSE NaN

RECURSIVE NpSumUpTo(_, _)
NpSumUpTo(a, i) == IF i = 0 THEN Rat(0, 1) ELSE FAdd(NpSumUpTo(a, i - 1), a[i])

\* np.mean(a): add.reduce(a) / len(a); nan for an empty array
NpMean(a) == FDivInt(NpSumUpTo(a, Len(a)), Len(a))

\* (a - c)**2, elementwise, c broadcast
SqDev(a, c) ==
    [i \in 1..Len(a) |-> LET x == FSub(a[i], c) IN FMul(x, x)]

\* np.var(a): mean(abs(a - a.mean())**2), ddof = 0
NpVar(a) == NpMean(SqDev(a, NpMean(a)))

(***************************************************************************)
(* np.log10 and the sums of its values: [k |-> "fin", n, d] is             *)
(* log10(n / d) with n/d > 0 in lowest terms; np.log10(0.) is -inf.        *)
(***************************************************************************)
LogNaN == [k |-> "nan", n |-> 1, d |-> 1]

LogInf == [k |-> "inf", n |-> 1, d |-> 1]

LogNegInf == [k |-> "-inf", n |-> 1, d |-> 1]

LogOf(n, d) ==
    LET g == GCD(n, d)
    IN  [k |-> "fin", n |-> n \div g, d |-> d \div g]

NpLog10(x) ==
    IF ~IsNum(x) \/ x.n < 0 THEN LogNaN
    ELSE IF x.n = 0 THEN LogNegInf
    ELSE LogOf(x.n, x.d)

LNeg(l) ==
    CASE l.k = "fin"  -> LogOf(l.d, l.n)
      [] l.k = "inf"  -> LogNegInf
      [] l.k = "-inf" -> LogInf
      [] OTHER        -> LogNaN

LAdd(l, m) ==
    CASE l.k = "nan" \/ m.k = "nan"     -> LogNaN
      [] l.k = "fin" /\ m.k = "fin"     -> LogOf(l.n * m.n, l.d * m.d)
      [] l.k = "fin"                    -> m
      [] m.k = "fin"                    -> l
      [] l.k = m.k                      -> l
      [] OTHER                          -> LogNaN

(***************************************************************************)
(* Names and labels.                                                       *)
(***************************************************************************)
DigitChar(n) ==
    CASE n = 0 -> "0" [] n = 1 -> "1" [] n = 2 -> "2" [] n = 3 -> "3"
      [] n = 4 -> "4" [] n = 5 -> "5" [] n = 6 -> "6" [] n = 7 -> "7"
      [] n = 8 -> "8" [] n = 9 -> "9"

\* '%i' % n for n >= 0
RECURSIVE ItoA(_)
ItoA(n) == IF n < 10 THEN DigitChar(n) ELSE ItoA(n \div 10) \o DigitChar(n % 10)

\* 'boot_%i' % d, 'guided_%i' % d, type_fk+'_%i'%d
ModelName(type_fk, d) == type_fk \o "_" \o ItoA(d)

ModeSuffix_qmc(qmc) == IF qmc THEN " QMC" ELSE " SMC"

\* df['qmc'].map({True:' SQMC', False:' SMC'})
ModeSuffix(qmc) == IF qmc THEN " SQMC" ELSE " SMC"

IsReference_anyGuided(type_fk, qmc) == type_fk = "guided"

\* if type_fk=='guided' and qmc==False: #reference category
IsReference(type_fk, qmc) == type_fk = "guided" /\ qmc = FALSE

(***************************************************************************)
(* The registry `models`, an OrderedDict: a sequence of (name, fk) items.  *)
(***************************************************************************)
HasKey(od, name) == \E i \in 1..Len(od) : od[i].name = name

\* od[name] = fk: replaces the value of an existing key, else appends
Put(od, name, fk) ==
    IF HasKey(od, name)
    THEN [i \in 1..Len(od) |-> IF od[i].name = name
                               THEN [name |-> name, fk |-> fk] ELSE od[i]]
    ELSE Append(od, [name |-> name, fk |-> fk])

\* ssm.Bootstrap(ssm=my_ssm, data=data)
Bootstrap(my_ssm, data) == [cls |-> "Bootstrap", ssm |-> my_ssm, data |-> data]

GuidedPF_newData(my_ssm, data) ==
    [cls |-> "GuidedPF", ssm |-> my_ssm, data |-> [obj |-> data.obj + 1]]

\* ssm.GuidedPF(ssm=my_ssm, data=data)
GuidedPF(my_ssm, data) == [cls |-> "GuidedPF", ssm |-> my_ssm, data |-> data]

(***************************************************************************)
(* The collection particles.multiSMC returns: one record per item of       *)
(* `models`, driving mode and run, in that order.  Its estimates are       *)
(* inputs: the runs of (guided, SMC) take the sample sR, those of (guided, *)
(* SQMC) the sample sO, (boot, SMC) takes sR in reverse order, (boot,      *)
(* SQMC) takes sO raised by MaxVal; every estimate is shifted by dx + t.   *)
(* `drop` numbers the (item, mode) pair whose records are absent, 0 for    *)
(* none; the incomplete collections are enumerated with sO = sR.           *)
(***************************************************************************)
Samples == [1..NRuns -> 0..MaxVal]

SampleOf(cls, qmc, sR, sO) ==
    CASE cls = "GuidedPF" /\ ~qmc  -> sR
      [] cls = "GuidedPF" /\ qmc   -> sO
      [] cls = "Bootstrap" /\ ~qmc -> [i \in 1..NRuns |-> sR[NRuns + 1 - i]]
      [] OTHER                     -> [i \in 1..NRuns |-> sO[i] + MaxVal]

RunRecord(item, qmc, run, sR, sO) ==
    [fk     |-> item.name,
     qmc    |-> qmc,
     run    |-> run,
     output |-> [t \in 0..(T - 1) |->
                    SampleOf(item.fk.cls, qmc, sR, sO)[run] + item.fk.ssm.dx + t]]

PairIndex(m, qi) == (m - 1) * Len(qmcs) + qi

MultiSMC(fk, sR, sO, drop) ==
    LET per == Len(qmcs) * NRuns
        all == [k \in 1..(Len(fk) * per) |->
                   LET m   == ((k - 1) \div per) + 1
                       qi  == (((k - 1) % per) \div NRuns) + 1
                       run == (k - 1) % NRuns
                   IN  [pair |-> PairIndex(m, qi),
                        rec  |-> RunRecord(fk[m], qmcs[qi], run + 1, sR, sO)]]
        Kept(x) == x.pair # drop
        kept == SelectSeq(all, Kept)
    IN  [i \in 1..Len(kept) |-> kept[i].rec]

(***************************************************************************)
(* The aggregation loop.                                                   *)
(***************************************************************************)
\* number of iterations of the innermost loop body
NCells == NDims * T * Len(type_fks) * Len(qmcs)

\* the loop variables (d, t, type_fk, qmc) of iteration number k = 0, 1, ...
CellAt(k) ==
    [d       |-> dims[(k \div (T * Len(type_fks) * Len(qmcs))) + 1],
     t       |-> (k \div (Len(type_fks) * Len(qmcs))) % T,
     type_fk |-> type_fks[((k \div Len(qmcs)) % Len(type_fks)) + 1],
     qmc     |-> qmcs[(k % Len(qmcs)) + 1]]

\* estimate = lambda r: r['output'].summaries.moments[t]['mean'][0]
estimate(r, t) == Rat(r.output[t], 1)

\* np.array([estimate(r) for r in results
\*           if r['qmc']==qmc and r['fk']==type_fk+'_%i'%d])
Est(res, d, t, type_fk, qmc) ==
    LET Match(r) == r.qmc = qmc /\ r.fk = ModelName(type_fk, d)
        sel == SelectSeq(res, Match)
    IN  [i \in 1..Len(sel) |-> estimate(sel[i], t)]

\* base_mean = np.mean(est)
BaseMean(est) == NpMean(est)

\* base_mse = np.var(est)
BaseMse(est) == NpVar(est)

Mse_ownMean(est, bmean) == NpMean(SqDev(est, NpMean(est)))

\* mse = np.mean((est-base_mean)**2)
Mse(est, bmean) == NpMean(SqDev(est, bmean))

Log10Gain_flipped(m, bmse) == LAdd(NpLog10(m), LNeg(NpLog10(bmse)))

\* log10_gain = -np.log10(mse) + np.log10(base_mse)
Log10Gain(m, bmse) == LAdd(LNeg(NpLog10(m)), NpLog10(bmse))

(***************************************************************************)
(* Initial state: nothing assigned yet.                                    *)
(***************************************************************************)
Init ==
    /\ pc = "setup"
    /\ di = 1
    /\ next_obj = 1
    /\ models = <<>>
    /\ results = <<>>
    /\ pos = 0
    /\ base_mean = Unbound
    /\ base_mse = Unbound
    /\ base_at = <<0, 0>>
    /\ mse = Unbound
    /\ results_mse = <<>>
    /\ df = <<>>

\* one iteration of `for d in dims:` of the model setup: three new objects
\* (the model instance, the simulated data, the Kalman filter's output), the
\* first two registered under two names
SetupModel ==
    /\ pc = "setup"
    /\ di <= NDims
    /\ LET d      == dims[di]
           my_ssm == [obj |-> next_obj, dx |-> d]
           data   == [obj |-> next_obj + 1]
       IN  models' = Put(Put(models, ModelName("boot", d), Bootstrap(my_ssm, data)),
                         ModelName("guided", d), GuidedPF(my_ssm, data))
    /\ next_obj' = next_obj + 3
    /\ di' = di + 1
    /\ UNCHANGED <<pc, results, pos, base_mean, base_mse, base_at, mse,
                   results_mse, df>>

\* results = particles.multiSMC(fk=models, qmc=[False, True], ...)
RunMultiSMC ==
    /\ pc = "setup"
    /\ di > NDims
    /\ \E sR \in Samples, sO \in Samples, drop \in 0..(Len(models) * Len(qmcs)) :
          /\ drop # 0 => sO = sR
          /\ results' = MultiSMC(models, sR, sO, drop)
    /\ pc' = "aggregate"
    /\ UNCHANGED <<di, next_obj, models, pos, base_mean, base_mse, base_at, mse,
                   results_mse, df>>

\* the loop body for the reference category
AggregateReference ==
    /\ pc = "aggregate"
    /\ pos < NCells
    /\ LET c   == CellAt(pos)
           est == Est(results, c.d, c.t, c.type_fk, c.qmc)
       IN  /\ IsReference(c.type_fk, c.qmc)
           /\ base_mean' = BaseMean(est)
           /\ base_mse' = BaseMse(est)
           /\ base_at' = <<c.d, c.t>>
    /\ pos' = pos + 1
    /\ UNCHANGED <<pc, di, next_obj, models, results, mse, results_mse, df>>

\* the loop body for every other category; reading base_mean before its
\* first assignment would end the script with a NameError
AggregateCell ==
    /\ pc = "aggregate"
    /\ pos < NCells
    /\ LET c    == CellAt(pos)
           est  == Est(results, c.d, c.t, c.type_fk, c.qmc)
           m    == Mse(est, base_mean)
           gain == Log10Gain(m, base_mse)
       IN  /\ ~IsReference(c.type_fk, c.qmc)
           /\ IF base_mean = Unbound
              THEN /\ pc' = "NameError"
                   /\ UNCHANGED <<pos, mse, results_mse>>
              ELSE /\ mse' = m
                   /\ results_mse' = Append(results_mse,
                         [fk |-> c.type_fk, dim |-> c.d, qmc |-> c.qmc, t |-> c.t,
                          log10_gain |-> gain])
                   /\ pos' = pos + 1
                   /\ pc' = pc
    /\ UNCHANGED <<di, next_obj, models, results, base_mean, base_mse, base_at, df>>

\* df = pd.DataFrame(results_mse); df['fk_qmc'] = df['fk'] + df['qmc'].map(...)
BuildDataFrame ==
    /\ pc = "aggregate"
    /\ pos = NCells
    /\ df' = [i \in 1..Len(results_mse) |->
                 LET r == results_mse[i]
                 IN  [fk |-> r.fk, dim |-> r.dim, qmc |-> r.qmc, t |-> r.t,
                      log10_gain |-> r.log10_gain,
                      fk_qmc |-> r.fk \o ModeSuffix(r.qmc)]]
    /\ pc' = "done"
    /\ UNCHANGED <<di, next_obj, models, results, pos, base_mean, base_mse,
                   base_at, mse, results_mse>>

Next ==
    \/ SetupModel
    \/ RunMultiSMC
    \/ AggregateReference
    \/ AggregateCell
    \/ BuildDataFrame

Spec == Init /\ [][Next]_vars

(***************************************************************************)
(* Vocabulary of the properties.                                           *)
(***************************************************************************)
\* order and sign of numbers
FLess(x, y) == IsNum(x) /\ IsNum(y) /\ x.n * y.d < y.n * x.d

FZero(x) == IsNum(x) /\ x.n = 0

FPos(x) == IsNum(x) /\ x.n > 0

\* the sign of a log value: 1, 0, -1; 2 for NaN
LSign(l) ==
    CASE l.k = "fin"  -> (IF l.n > l.d THEN 1 ELSE IF l.n = l.d THEN 0 ELSE -1)
      [] l.k = "inf"  -> 1
      [] l.k = "-inf" -> -1
      [] OTHER        -> 2

\* the three categories other than the reference category (guided, SMC)
NonReference == {<<"guided", TRUE>>, <<"boot", FALSE>>, <<"boot", TRUE>>}

Key(r) == <<r.dim, r.t, r.fk, r.qmc>>

\* the replication values of a cell, and of the reference category, in the
\* collection multiSMC returned
CellValues(r) == Est(results, r.dim, r.t, r.fk, r.qmc)

RefValues(d, t) == Est(results, d, t, "guided", FALSE)

\* mean of a cell's squared deviations from the reference mean at its (d, t)
CellError(r) == NpMean(SqDev(CellValues(r), NpMean(RefValues(r.dim, r.t))))

RefVariance(d, t) == NpVar(RefValues(d, t))

\* the numbers of the occurrences of v in a
Count(a, v) == Cardinality({i \in 1..Len(a) : a[i] = v})

SameMultiset(a, b) ==
    /\ Len(a) = Len(b)
    /\ \A i \in 1..Len(a) : Count(a, a[i]) = Count(b, a[i])

Rows == {results_mse[i] : i \in 1..Len(results_mse)}

\* the loop has started iteration k - 1 and not yet iteration k
Processed(k) == pc \in {"aggregate", "done"} /\ pos >= k

(***************************************************************************)
(* C1: whenever the aggregation loop is about to process a cell of         *)
(* (guided, qmc=True), (boot, qmc=False) or (boot, qmc=True) at some       *)
(* (d, t), base_mean and base_mse have been assigned, and their latest     *)
(* assignment was made from the reference category at that same (d, t);    *)
(* the loop never reads them unassigned.                                   *)
(***************************************************************************)
C1_BaselineBeforeCells ==
    /\ pc # "NameError"
    /\ (pc = "aggregate" /\ pos < NCells) =>
          LET c == CellAt(pos)
          IN  <<c.type_fk, c.qmc>> \in NonReference =>
                 /\ base_at = <<c.d, c.t>>
                 /\ base_mean # Unbound
                 /\ base_mse # Unbound

\* the last cell of the grid is about to be processed, after the baseline
\* of the last (d, t)
C1_Witness ==
    /\ pc = "aggregate"
    /\ pos = NCells - 1
    /\ base_at = <<dims[NDims], T - 1>>
    /\ Len(results_mse) = 3 * NDims * T - 1

(***************************************************************************)
(* C2: when the aggregation loop has finished, the result table holds      *)
(* exactly |dims| * T * 3 rows, no two rows with the same (dimension, time *)
(* step, algorithm-kind, driving-mode), and one row for every key of the   *)
(* grid dims x 0..T-1 x the three non-reference categories.                *)
(***************************************************************************)
C2_ExactGrid ==
    pc = "done" =>
        /\ Len(df) = NDims * T * 3
        /\ Len(results_mse) = Len(df)
        /\ \A i, j \in 1..Len(df) : i # j => Key(df[i]) # Key(df[j])
        /\ \A i \in 1..NDims, t \in 0..(T - 1), c \in NonReference :
              \E k \in 1..Len(df) : Key(df[k]) = <<dims[i], t, c[1], c[2]>>
        /\ \A k \in 1..Len(df) : Key(df[k]) = Key(results_mse[k])

C2_Witness == pc = "done" /\ Len(df) > NDims * T

(***************************************************************************)
(* C3: every step that changes results_mse appends one row r and leaves    *)
(* the rows before it as they were; the mse computed in that step is the   *)
(* mean of the squared deviations of the values of r's cell from the mean  *)
(* of the reference category's values at the same (d, t); r's log10_gain   *)
(* is finite exactly when that mse and the variance of those reference     *)
(* values are positive, and is then the log of (that variance) / (that     *)
(* mse).                                                                   *)
(***************************************************************************)
C3_ErrorAgainstReferenceMean ==
    [][results_mse' # results_mse =>
          \A r \in {results_mse'[Len(results_mse')]} :
          \A m \in {CellError(r)}, b \in {RefVariance(r.dim, r.t)} :
              /\ results_mse' = Append(results_mse, r)
              /\ mse' = m
              /\ r.log10_gain.k = "fin" <=> (FPos(m) /\ FPos(b))
              /\ r.log10_gain.k = "fin" =>
                    r.log10_gain.n * b.d * m.n = r.log10_gain.d * b.n * m.d]_vars

\* a cell of the last dimension whose error about the reference mean is not
\* its own variance, nor its error about the reference mean of the (d, t) before
C3_Witness ==
    /\ Processed(NCells)
    /\ LET c == CellAt(NCells - 1)
           r == [dim |-> c.d, t |-> c.t, fk |-> c.type_fk, qmc |-> c.qmc]
       IN  /\ FPos(mse)
           /\ mse # NpVar(CellValues(r))
           /\ mse # NpMean(SqDev(CellValues(r), NpMean(RefValues(c.d, c.t - 1))))
           /\ results_mse[Len(results_mse)].log10_gain.k = "fin"

(***************************************************************************)
(* C4: if the reference category's values at some (d, t) have variance     *)
(* zero, the run ends in an error: it does not end normally, and no row of *)
(* that (d, t) with an infinite or NaN log10_gain is in the result table.  *)
(***************************************************************************)
C4_ZeroBaselineReported ==
    /\ \A r \in Rows :
          FZero(RefVariance(r.dim, r.t)) => r.log10_gain.k = "fin"
    /\ pc = "done" =>
          \A i \in 1..NDims, t \in 0..(T - 1) : ~FZero(RefVariance(dims[i], t))

(***************************************************************************)
(* C5: if the values of a non-reference cell all equal the reference mean  *)
(* (mse = 0) the aggregator raises an error: no row is made for the cell,  *)
(* in particular none with an infinite log10_gain.                         *)
(***************************************************************************)
C5_ZeroErrorRaises ==
    \A r \in Rows :
        (Len(CellValues(r)) > 0 /\ FPos(RefVariance(r.dim, r.t))) =>
            ~FZero(CellError(r))

(***************************************************************************)
(* C6: if the returned collection has no record for some declared (problem *)
(* name, driving-mode) pair, the run ends in an error: no statistic is     *)
(* computed over an empty set of values, no row is made from one, and the  *)
(* run does not end normally.                                              *)
(***************************************************************************)
C6_MissingReplicationsFail ==
    /\ \A r \in Rows :
          Len(CellValues(r)) > 0 /\ Len(RefValues(r.dim, r.t)) > 0
    /\ base_mean # NaN
    /\ pc = "done" =>
          \A m \in 1..Len(models), qi \in 1..Len(qmcs) :
              \E k \in 1..Len(results) :
                  results[k].fk = models[m].name /\ results[k].qmc = qmcs[qi]

C8_EqualSamplesZeroGain ==
    \A r \in Rows :
        (Len(CellValues(r)) > 0 /\ SameMultiset(CellValues(r), RefValues(r.dim, r.t))) =>
            /\ CellError(r) = RefVariance(r.dim, r.t)
            /\ r.log10_gain = LogOf(1, 1)

(***************************************************************************)
(* C9: after the model setup loop the registry `models` has exactly        *)
(* 2 * |dims| entries with pairwise distinct names, a 'boot_<d>' and a     *)
(* 'guided_<d>' for each d of dims, and the two entries of a dimension     *)
(* hold the same model instance and the same simulated data.               *)
(***************************************************************************)
C9_Registry ==
    (pc # "setup" \/ di > NDims) =>
        /\ Len(models) = 2 * NDims
        /\ \A i, j \in 1..Len(models) : i # j => models[i].name # models[j].name
        /\ \A i \in 1..NDims :
              \E b, g \in 1..Len(models) :
                  /\ models[b].name = "boot_" \o ItoA(dims[i])
                  /\ models[g].name = "guided_" \o ItoA(dims[i])
                  /\ models[b].fk.cls = "Bootstrap"
                  /\ models[g].fk.cls = "GuidedPF"
                  /\ models[b].fk.ssm = models[g].fk.ssm
                  /\ models[b].fk.data = models[g].fk.data
                  /\ models[b].fk.ssm.dx = dims[i]

C9_Witness == pc = "setup" /\ di > NDims /\ Len(models) > 2

(***************************************************************************)
(* C10: in every state no row of results_mse has fk = 'guided' with        *)
(* qmc = False, the label fk_qmc of every row of df is one of the three    *)
(* labels of hue_order, and once df is built each of the three labels      *)
(* occurs for every (dimension, time step).                                *)
(***************************************************************************)
C10_Labels ==
    /\ \A r \in Rows : ~(r.fk = "guided" /\ r.qmc = FALSE)
    /\ \A k \in 1..Len(df) :
          /\ \E h \in 1..Len(hue_order) : df[k].fk_qmc = hue_order[h]
          /\ ~(df[k].fk = "guided" /\ df[k].qmc = FALSE)
    /\ pc = "done" =>
          \A i \in 1..NDims, t \in 0..(T - 1), h \in 1..Len(hue_order) :
              \E k \in 1..Len(df) :
                  /\ df[k].dim = dims[i]
                  /\ df[k].t = t
                  /\ df[k].fk_qmc = hue_order[h]

C10_Witness ==
    /\ pc = "done"
    /\ \E k \in 1..Len(df) : df[k].fk_qmc = "guided SQMC" /\ df[k].dim = dims[NDims]

====
